---- MODULE Spec2Model ----
(***************************************************************************)
(* A model of ambitus.py: the Note class, the scale builder diatonic(),    *)
(* the glyph encoder glyph() and the formatter build_glyphs().             *)
(*                                                                         *)
(* Python strings are sequences of one-character strings, so that          *)
(* indexing, concatenation and join are computed as the code computes      *)
(* them.  Note objects live in a heap indexed by references, so that the   *)
(* aliasing of diatonic() (current = start, stop = highest) is visible.    *)
(***************************************************************************)
EXTENDS Integers, Sequences, FiniteSets, TLC

VARIABLES pc, call, heap, stop, current, base_index, scale_index, notes, glyphs, ret

vars == <<pc, call, heap, stop, current, base_index, scale_index, notes, glyphs, ret>>

(***************************************************************************)
(* Bounds of the model.                                                    *)
(***************************************************************************)
\* longest text handed to Note()
MaxTextLen == 4
\* accidentals of the pitches handed to glyph() and the comparisons: -MaxAlt..MaxAlt
MaxAlt == 3
\* longest pitch sequence handed to build_glyphs()
MaxSeqLen == 3

(***************************************************************************)
(* Static tables.                                                          *)
(***************************************************************************)
steps == <<2, 1, 2, 2, 1, 2, 2>>

scales ==
    ( "Major"            :> <<2, 2, 1, 2, 2, 2, 1>>
   @@ "Natural minor"    :> <<2, 1, 2, 2, 1, 2, 2>>
   @@ "Harmonic minor"   :> <<2, 1, 2, 2, 1, 3, 1>>
   @@ "Aeolian"          :> <<2, 1, 2, 2, 1, 2, 2>>
   @@ "Locrian"          :> <<1, 2, 2, 1, 2, 2, 2>>
   @@ "Ionian"           :> <<2, 2, 1, 2, 2, 2, 1>>
   @@ "Lydian"           :> <<2, 2, 2, 1, 2, 2, 1>>
   @@ "Dorian"           :> <<2, 1, 2, 2, 2, 1, 2>>
   @@ "Phrygian"         :> <<1, 2, 2, 2, 1, 2, 2>>
   @@ "Mixolydian"       :> <<2, 2, 1, 2, 2, 1, 2>>
   @@ "Melodic minor"    :> <<2, 1, 2, 2, 2, 2, 1>>
   @@ "Phrygian n6"      :> <<1, 2, 2, 2, 2, 1, 2>>
   @@ "Lydian augmented" :> <<2, 2, 2, 2, 1, 2, 1>>
   @@ "Lydian dominant"  :> <<2, 2, 2, 1, 2, 1, 2>>
   @@ "Mixolydian b6"    :> <<2, 2, 1, 2, 1, 2, 2>>
   @@ "Locrian n2"       :> <<2, 1, 2, 1, 2, 2, 2>>
   @@ "Altered dominant" :> <<1, 2, 1, 2, 2, 2, 2>> )

\* signatures[key][0] is .alt, signatures[key][1:] is .acc
Sig(alt, acc) == [alt |-> alt, acc |-> acc]

Flats == <<"B", "E", "A", "D", "G", "C", "F">>

Sharps == <<"F", "C", "G", "D", "A", "E", "B">>

signatures ==
    ( "c"   :> Sig(0, <<>>)               @@ "am"  :> Sig(0, <<>>)
   @@ "f"   :> Sig(-1, SubSeq(Flats, 1, 1)) @@ "dm"  :> Sig(-1, SubSeq(Flats, 1, 1))
   @@ "bb"  :> Sig(-1, SubSeq(Flats, 1, 2)) @@ "gm"  :> Sig(-1, SubSeq(Flats, 1, 2))
   @@ "eb"  :> Sig(-1, SubSeq(Flats, 1, 3)) @@ "cm"  :> Sig(-1, SubSeq(Flats, 1, 3))
   @@ "ab"  :> Sig(-1, SubSeq(Flats, 1, 4)) @@ "fm"  :> Sig(-1, SubSeq(Flats, 1, 4))
   @@ "db"  :> Sig(-1, SubSeq(Flats, 1, 5)) @@ "bbm" :> Sig(-1, SubSeq(Flats, 1, 5))
   @@ "gb"  :> Sig(-1, SubSeq(Flats, 1, 6)) @@ "ebm" :> Sig(-1, SubSeq(Flats, 1, 6))
   @@ "cb"  :> Sig(-1, SubSeq(Flats, 1, 7)) @@ "abm" :> Sig(-1, SubSeq(Flats, 1, 7))
   @@ "g"   :> Sig(1, SubSeq(Sharps, 1, 1)) @@ "em"  :> Sig(1, SubSeq(Sharps, 1, 1))
   @@ "d"   :> Sig(1, SubSeq(Sharps, 1, 2)) @@ "bm"  :> Sig(1, SubSeq(Sharps, 1, 2))
   @@ "a"   :> Sig(1, SubSeq(Sharps, 1, 3)) @@ "f#m" :> Sig(1, SubSeq(Sharps, 1, 3))
   @@ "e"   :> Sig(1, SubSeq(Sharps, 1, 4)) @@ "c#m" :> Sig(1, SubSeq(Sharps, 1, 4))
   @@ "b"   :> Sig(1, SubSeq(Sharps, 1, 5)) @@ "g#m" :> Sig(1, SubSeq(Sharps, 1, 5))
   @@ "f#"  :> Sig(1, SubSeq(Sharps, 1, 6)) @@ "d#m" :> Sig(1, SubSeq(Sharps, 1, 6))
   @@ "c#"  :> Sig(1, SubSeq(Sharps, 1, 7)) @@ "a#m" :> Sig(1, SubSeq(Sharps, 1, 7)) )

clefs == [treble |-> <<"T">>, bass |-> <<"B">>, alto |-> <<"A">>, tenor |-> <<"t">>]

(***************************************************************************)
(* Python string helpers.                                                  *)
(***************************************************************************)
\* s.find(c) for a one-character c: the 0-based index of its first occurrence, or -1
find(s, c) ==
    IF \E i \in 1..Len(s) : s[i] = c
    THEN (CHOOSE i \in 1..Len(s) : s[i] = c /\ \A j \in 1..(i - 1) : s[j] # c) - 1
    ELSE -1

\* c in s, for a one-character c
In(c, s) == \E i \in 1..Len(s) : s[i] = c

LowerCase == <<"a", "b", "c", "d", "e", "f", "g", "h", "x">>

UpperCase == <<"A", "B", "C", "D", "E", "F", "G", "H", "X">>

\* c.upper() on the characters of the model
upper(c) == IF In(c, LowerCase) THEN UpperCase[find(LowerCase, c) + 1] ELSE c

Digits == <<"0", "1", "2", "3", "4", "5", "6", "7", "8", "9">>

\* chr(ord(c) + 1) on the letters the builder passes through
NextChr == <<"B", "C", "D", "E", "F", "G", "H", "I">>

chr_ord_plus_1(c) == NextChr[find(<<"A", "B", "C", "D", "E", "F", "G", "H">>, c) + 1]

(***************************************************************************)
(* class Note.                                                             *)
(***************************************************************************)
NoNote == [note |-> "", noteindex |-> -1, alt |-> 0, oct |-> 0]

Raise(exc) == [raised |-> exc, note |-> NoNote]

\* the length test of Note.__init__: 2 > len(name) > 3
BadLength(name) == 2 > Len(name) /\ Len(name) > 3

\* int(name[-1]) succeeds on a decimal digit
IntOfLast(name) == find(Digits, name[Len(name)])

\* Note.__init__: the constructed object, or the exception it raises
NoteInit(name) ==
    IF BadLength(name) THEN Raise("ValueError")
    ELSE IF Len(name) < 1 THEN Raise("IndexError")
    ELSE LET note == upper(name[1]) IN
    IF ~In(note, <<"A", "B", "C", "D", "E", "F", "G">>) THEN Raise("ValueError")
    ELSE IF Len(name) < 2 THEN Raise("IndexError")
    ELSE LET alt == IF name[2] = "b" THEN -1 ELSE IF name[2] = "#" THEN 1 ELSE 0 IN
    IF name[2] # "b" /\ name[2] # "#" /\ ~In(name[2], <<"1", "2", "3", "4", "5", "6">>)
    THEN Raise("ValueError")
    ELSE IF IntOfLast(name) < 0 THEN Raise("ValueError")
    ELSE [raised |-> "",
          note |-> [note |-> note,
                    noteindex |-> find(<<"C", "D", "E", "F", "G", "A", "B">>, note),
                    alt |-> alt,
                    oct |-> IntOfLast(name)]]

\* tuple comparison of Python: (a1, a2, a3) < (b1, b2, b3)
TupleLt(a, b) ==
    \/ a[1] < b[1]
    \/ a[1] = b[1] /\ a[2] < b[2]
    \/ a[1] = b[1] /\ a[2] = b[2] /\ a[3] < b[3]

Note_eq(a, b) == <<a.oct, a.note, a.alt>> = <<b.oct, b.note, b.alt>>

\* a slip: the accidental is compared before the letter
Note_lt_altFirst(a, b) ==
    TupleLt(<<a.oct, a.alt, a.noteindex>>, <<b.oct, b.alt, b.noteindex>>)

Note_lt(a, b) == TupleLt(<<a.oct, a.noteindex, a.alt>>, <<b.oct, b.noteindex, b.alt>>)

Note_le(a, b) ==
    \/ TupleLt(<<a.oct, a.noteindex, a.alt>>, <<b.oct, b.noteindex, b.alt>>)
    \/ <<a.oct, a.noteindex, a.alt>> = <<b.oct, b.noteindex, b.alt>>

Note_gt(a, b) == TupleLt(<<b.oct, b.noteindex, b.alt>>, <<a.oct, a.noteindex, a.alt>>)

Note_ge(a, b) ==
    \/ TupleLt(<<b.oct, b.noteindex, b.alt>>, <<a.oct, a.noteindex, a.alt>>)
    \/ <<a.oct, a.noteindex, a.alt>> = <<b.oct, b.noteindex, b.alt>>

Note_ne(a, b) == <<a.oct, a.note, a.alt>> # <<b.oct, b.note, b.alt>>

\* Note.__repr__
Note_repr(n) ==
    LET acc == CASE n.alt = -1 -> <<"b">>
                 [] n.alt = 1  -> <<"#">>
                 [] n.alt = 0  -> <<>>
                 [] n.alt = -2 -> <<"b", "b">>
                 [] n.alt = 2  -> <<"x">>
                 [] OTHER      -> <<"E", "R", "R", "O", "R">>
    IN <<n.note>> \o acc \o <<Digits[n.oct + 1]>>

(***************************************************************************)
(* The clef table: ranges[clef][which] is a reference into the heap.       *)
(***************************************************************************)
ranges ==
    [bass   |-> [low |-> "bass_low",   high |-> "bass_high",   middle |-> "bass_middle"],
     treble |-> [low |-> "treble_low", high |-> "treble_high", middle |-> "treble_middle"],
     alto   |-> [low |-> "alto_low",   high |-> "alto_high",   middle |-> "alto_middle"],
     tenor  |-> [low |-> "tenor_low",  high |-> "tenor_high",  middle |-> "tenor_middle"]]

ClefNames == {"bass", "treble", "alto", "tenor"}

TableRefs == {ranges[c][w] : c \in ClefNames, w \in {"low", "high", "middle"}}

\* the objects the module builds when it is loaded
RangesInit ==
    ( "bass_low"      :> NoteInit(<<"A", "b", "1">>).note
   @@ "bass_high"     :> NoteInit(<<"G", "#", "4">>).note
   @@ "bass_middle"   :> NoteInit(<<"D", "3">>).note
   @@ "treble_low"    :> NoteInit(<<"F", "b", "3">>).note
   @@ "treble_high"   :> NoteInit(<<"E", "#", "6">>).note
   @@ "treble_middle" :> NoteInit(<<"B", "4">>).note
   @@ "alto_low"      :> NoteInit(<<"G", "b", "2">>).note
   @@ "alto_high"     :> NoteInit(<<"F", "#", "5">>).note
   @@ "alto_middle"   :> NoteInit(<<"C", "4">>).note
   @@ "tenor_low"     :> NoteInit(<<"E", "b", "2">>).note
   @@ "tenor_high"    :> NoteInit(<<"D", "#", "5">>).note
   @@ "tenor_middle"  :> NoteInit(<<"A", "3">>).note )

(***************************************************************************)
(* diatonic(scale, startkey, stopkey).                                     *)
(***************************************************************************)
\* line 148: stop > highest decides whether the default stop is clamped
Clamped(stopNote, highest) == Note_gt(stopNote, highest)

\* a slip: the running pitch is the stop object instead of the start object
CurrentRef_stop(startRef, stopRef) == stopRef

\* line 154: current = start
CurrentRef(startRef, stopRef) == startRef

\* a slip: the reference pattern is indexed from C instead of from A
BaseIndex_fromC(note) == find(<<"C", "D", "E", "F", "G", "A", "B">>, note)

\* line 155: base_index = "ABCDEFG".find(start.note)
BaseIndex(note) == find(<<"A", "B", "C", "D", "E", "F", "G">>, note)

\* a slip: the loop stops before the stop pitch
LoopCond_strict(cur, stp) == Note_lt(cur, stp)

\* line 158: while current <= stop
LoopCond(cur, stp) == Note_le(cur, stp)

\* lines 165-168: the letter after the advance, "H" wrapped back to "A"
NextLetter(note) ==
    IF chr_ord_plus_1(note) = "H" THEN "A" ELSE chr_ord_plus_1(note)

\* a slip: the octave is raised at the wrap of the letter name
NextOct_atWrap(advanced, oct) == IF advanced = "H" THEN oct + 1 ELSE oct

\* lines 167-170: the octave after the advance to letter `advanced`
NextOct(advanced, oct) ==
    IF advanced = "H" THEN oct
    ELSE IF advanced = "C" THEN oct + 1
    ELSE oct

\* lines 159-170 on the running pitch: one step of the scale
Advance(n, scalestep, basestep) ==
    [note      |-> NextLetter(n.note),
     noteindex |-> (n.noteindex + 1) % 7,
     alt       |-> n.alt + scalestep - basestep,
     oct       |-> NextOct(chr_ord_plus_1(n.note), n.oct)]

\* lines 141-151: the heap and the stop reference after the start and stop
\* pitches are built, or the exception raised on the way
Prologue(h, startkey, stopkey) ==
    LET s == NoteInit(startkey) IN
    IF s.raised # "" THEN [raised |-> s.raised, heap |-> h, stop |-> "stop"]
    ELSE
    LET h1 == [h EXCEPT !["start"] = s.note] IN
    IF stopkey # <<>>
    THEN LET t == NoteInit(stopkey) IN
         IF t.raised # "" THEN [raised |-> t.raised, heap |-> h1, stop |-> "stop"]
         ELSE LET h2 == [h1 EXCEPT !["stop"] = t.note] IN
              IF Note_lt(h2["stop"], h2["start"])
              THEN [raised |-> "ValueError", heap |-> h2, stop |-> "stop"]
              ELSE [raised |-> "", heap |-> h2, stop |-> "stop"]
    ELSE LET highest == ranges["treble"]["high"]
             h2 == [h1 EXCEPT !["stop"] = [s.note EXCEPT !.oct = @ + 1]]
             stp == IF Clamped(h2["stop"], h2[highest]) THEN highest ELSE "stop"
         IN IF Note_lt(h2[stp], h2["start"])
            THEN [raised |-> "ValueError", heap |-> h2, stop |-> stp]
            ELSE [raised |-> "", heap |-> h2, stop |-> stp]

\* lines 132-157: the call, up to the first test of the loop
DiatonicEnter(scale, startkey, stopkey) ==
    /\ pc = "idle"
    /\ call' = [op |-> "diatonic", scale |-> scale, startkey |-> startkey,
                stopkey |-> stopkey]
    /\ LET p == Prologue(heap, startkey, stopkey) IN
       /\ heap' = p.heap
       /\ stop' = p.stop
       /\ glyphs' = <<>>
       /\ notes' = <<>>
       /\ scale_index' = 0
       /\ IF p.raised # ""
          THEN /\ pc' = "raised"
               /\ ret' = p.raised
               /\ current' = "start"
               /\ base_index' = 0
          ELSE /\ pc' = "loop"
               /\ ret' = ""
               /\ current' = CurrentRef("start", p.stop)
               /\ base_index' = BaseIndex(p.heap["start"].note)

\* lines 158-170: one iteration of the loop
DiatonicStep ==
    /\ pc = "loop"
    /\ LoopCond(heap[current], heap[stop])
    /\ notes' = Append(notes, heap[current])
    /\ heap' = [heap EXCEPT ![current] =
                    Advance(@, scales[call.scale][scale_index + 1], steps[base_index + 1])]
    /\ base_index' = (base_index + 1) % 7
    /\ scale_index' = (scale_index + 1) % 7
    /\ UNCHANGED <<pc, call, stop, current, glyphs, ret>>

\* line 171: the loop has ended
DiatonicReturn ==
    /\ pc = "loop"
    /\ ~LoopCond(heap[current], heap[stop])
    /\ pc' = "done"
    /\ ret' = notes
    /\ UNCHANGED <<call, heap, stop, current, base_index, scale_index, notes, glyphs>>

\* lines 233-256: the call is over and the caller's loop comes round to the next
\* one; the frame's objects are gone, the module's tables stay as they are
NextCall ==
    /\ pc \in {"done", "raised"}
    /\ pc' = "idle"
    /\ call' = [op |-> "none"]
    /\ heap' = [heap EXCEPT !["start"] = NoNote, !["stop"] = NoNote]
    /\ stop' = "stop"
    /\ current' = "start"
    /\ base_index' = 0
    /\ scale_index' = 0
    /\ notes' = <<>>
    /\ glyphs' = <<>>
    /\ ret' = ""

(***************************************************************************)
(* The inputs of the scale builder.                                        *)
(***************************************************************************)
ScaleNames == DOMAIN scales

LetterSet == {"A", "B", "C", "D", "E", "F", "G"}

OctaveDigits == {"1", "2", "3", "4", "5", "6"}

\* <Letter A-G>[b|#]<octave digit 1-6>
ValidKeys ==
    {<<l, o>> : l \in LetterSet, o \in OctaveDigits}
    \cup {<<l, a, o>> : l \in LetterSet, a \in {"b", "#"}, o \in OctaveDigits}

MalformedKeys == {<<"C">>, <<"H", "4">>, <<"C", "b">>}

\* the text of the pitch one octave above: the octave digit raised by one
OctaveAbove(key) == [key EXCEPT ![Len(key)] = Digits[IntOfLast(key) + 2]]

FixedStops ==
    {<<l, o>> : l \in {"C", "G"}, o \in {"2", "4", "6"}}
    \cup {<<"E", "#", "6">>, <<"D", "b", "3">>, <<"B", "5">>, <<"A", "b", "1">>,
          <<"F", "#", "5">>, <<"B", "b", "2">>}

StopKeys(startkey) ==
    IF startkey \in ValidKeys
    THEN {<<>>, OctaveAbove(startkey)} \cup FixedStops
    ELSE {<<>>}

Init ==
    /\ pc = "idle"
    /\ call = [op |-> "none"]
    /\ heap = RangesInit @@ ("start" :> NoNote) @@ ("stop" :> NoNote)
    /\ stop = "stop"
    /\ current = "start"
    /\ base_index = 0
    /\ scale_index = 0
    /\ notes = <<>>
    /\ glyphs = <<>>
    /\ ret = ""

\* line 251: the caller hands the builder a scale, a start and a stop
DiatonicCall ==
    /\ pc = "idle"
    /\ \E scale \in ScaleNames, startkey \in ValidKeys \cup MalformedKeys :
           \E stopkey \in StopKeys(startkey) : DiatonicEnter(scale, startkey, stopkey)

Next ==
    \/ DiatonicCall
    \/ DiatonicStep
    \/ DiatonicReturn
    \/ NextCall

Spec == Init /\ [][Next]_vars

(***************************************************************************)
(* glyph(note, clef, head, stem, key) and build_glyphs(...).               *)
(***************************************************************************)
RECURSIVE StrNat(_)
\* str(n) for n >= 0
StrNat(n) ==
    IF n < 10 THEN <<Digits[n + 1]>>
    ELSE StrNat(n \div 10) \o <<Digits[(n % 10) + 1]>>

\* str(n)
str(n) == IF n < 0 THEN <<"-">> \o StrNat(-n) ELSE StrNat(n)

RECURSIVE join(_, _)
\* sep.join(list)
join(sep, list) ==
    IF Len(list) = 0 THEN <<>>
    ELSE IF Len(list) = 1 THEN list[1]
    ELSE list[1] \o sep \o join(sep, Tail(list))

RECURSIVE reverse(_)
\* list.reverse()
reverse(list) ==
    IF Len(list) = 0 THEN <<>> ELSE Append(reverse(Tail(list)), list[1])

diatonic_distance(note, ref_note) ==
    note.noteindex - ref_note.noteindex + 7 * (note.oct - ref_note.oct)

\* a slip: the lowest pitch of the range is excluded
InRange_strict(note, low, high) == Note_lt(low, note) /\ Note_le(note, high)

\* line 180: ranges[clef]["low"] <= note <= ranges[clef]["high"]
InRange(note, low, high) == Note_le(low, note) /\ Note_le(note, high)

\* lines 184-192: the offset token
DistanceToken(distance) ==
    CASE distance = -10 -> <<"-", "0">>
      [] distance = 10  -> <<"0">>
      [] distance = 0   -> <<>>
      [] OTHER          -> str(distance)

\* what glyph() and its parts hand back: a string, None, or an exception
Token(value) == [raised |-> "", none |-> FALSE, value |-> value]

None == [raised |-> "", none |-> TRUE, value |-> <<>>]

RaiseIn(exc) == [raised |-> exc, none |-> FALSE, value |-> <<>>]

\* a slip: a flat or sharp is dropped whenever the key touches the letter, and
\* the polarity of the key is not looked at
AccToken_anyPolarity(note, key_alt, key_acc) ==
    CASE note.alt = -1 -> Token(IF In(note.note, key_acc) THEN <<>> ELSE <<"b">>)
      [] note.alt = 1  -> Token(IF In(note.note, key_acc) THEN <<>> ELSE <<"#">>)
      [] note.alt = 0  ->
            Token(IF key_alt # 0 /\ In(note.note, key_acc) THEN <<"n">> ELSE <<>>)
      [] note.alt = -2 -> Token(<<"b", "b">>)
      [] note.alt = 2  -> Token(<<"x">>)
      [] OTHER         -> RaiseIn("ValueError")

\* a slip: the default case yields a token, as Note.__repr__ does, and does not raise
AccToken_noRaise(note, key_alt, key_acc) ==
    CASE note.alt = -1 ->
            Token(IF key_alt = -1 /\ In(note.note, key_acc) THEN <<>> ELSE <<"b">>)
      [] note.alt = 1  ->
            Token(IF key_alt = 1 /\ In(note.note, key_acc) THEN <<>> ELSE <<"#">>)
      [] note.alt = 0  ->
            Token(IF key_alt # 0 /\ In(note.note, key_acc) THEN <<"n">> ELSE <<>>)
      [] note.alt = -2 -> Token(<<"b", "b">>)
      [] note.alt = 2  -> Token(<<"x">>)
      [] OTHER         -> Token(<<"E", "R", "R", "O", "R">>)

\* lines 193-205: the accidental token
AccToken(note, key_alt, key_acc) ==
    CASE note.alt = -1 ->
            Token(IF key_alt = -1 /\ In(note.note, key_acc) THEN <<>> ELSE <<"b">>)
      [] note.alt = 1  ->
            Token(IF key_alt = 1 /\ In(note.note, key_acc) THEN <<>> ELSE <<"#">>)
      [] note.alt = 0  ->
            Token(IF key_alt # 0 /\ In(note.note, key_acc) THEN <<"n">> ELSE <<>>)
      [] note.alt = -2 -> Token(<<"b", "b">>)
      [] note.alt = 2  -> Token(<<"x">>)
      [] OTHER         -> RaiseIn("ValueError")

\* lines 177-206; h is the heap that holds the objects of the clef table
glyph(h, note, clef, head, stem, key) ==
    LET key_alt == signatures[key].alt
        key_acc == signatures[key].acc
    IN IF ~InRange(note, h[ranges[clef]["low"]], h[ranges[clef]["high"]])
       THEN None
       ELSE LET distance ==
                    DistanceToken(diatonic_distance(note, h[ranges[clef]["middle"]]))
                acc == AccToken(note, key_alt, key_acc)
            IN IF acc.raised # "" THEN acc
               ELSE Token(acc.value \o head \o distance \o stem)

\* lines 208-215
build_keysig(clef, key) ==
    LET alt == signatures[key].alt IN
    IF alt # 0
    THEN clefs[clef] \o (IF alt = -1 THEN <<"b">> ELSE <<"#">>)
                     \o str(Len(signatures[key].acc))
    ELSE clefs[clef] \o <<>> \o <<>>

\* a slip: the marker is given to the stemmed heads
StemArg_swapped(stem) == IF stem THEN <<"s">> ELSE <<>>

\* line 220: "" if stem else "s"
StemArg(stem) == IF stem THEN <<>> ELSE <<"s">>

\* line 220: if g := ...; None and the empty string are both false
Truthy(g) == ~g.none /\ g.value # <<>>

RECURSIVE GlyphLoop(_, _, _, _, _, _, _)
\* lines 218-221: the list of glyphs after the loop over ns, begun with acc; an
\* exception raised by glyph() ends the loop
GlyphLoop(h, ns, acc, clef, head, stem, key) ==
    IF Len(ns) = 0 THEN [raised |-> "", glyphs |-> acc]
    ELSE LET g == glyph(h, ns[1], clef, head, StemArg(stem), key) IN
         IF g.raised # "" THEN [raised |-> g.raised, glyphs |-> acc]
         ELSE GlyphLoop(h, Tail(ns), IF Truthy(g) THEN Append(acc, g.value) ELSE acc,
                        clef, head, stem, key)

\* lines 217-223: the glyph list at the end and the string returned
build_glyphs(h, ns, clef, head, stem, sep, start, end, key, reversed) ==
    LET loop == GlyphLoop(h, ns, <<>>, clef, head, stem, key) IN
    IF loop.raised # ""
    THEN [raised |-> loop.raised, glyphs |-> loop.glyphs, value |-> <<>>]
    ELSE LET gs == IF reversed THEN reverse(loop.glyphs) ELSE loop.glyphs IN
         [raised |-> "", glyphs |-> gs,
          value |-> build_keysig(clef, key) \o start \o join(sep, gs) \o end]

(***************************************************************************)
(* Calls of the pure operations: Note(), the comparisons, glyph() and      *)
(* build_glyphs().                                                         *)
(***************************************************************************)
\* a Note object with the given fields, as Note.__init__ and the builder's
\* accumulation of accidentals leave it
Pitch(letter, alt, oct) ==
    [note |-> letter,
     noteindex |-> find(<<"C", "D", "E", "F", "G", "A", "B">>, letter),
     alt |-> alt,
     oct |-> oct]

Octaves == 1..6

Pitches == {Pitch(l, a, o) : l \in LetterSet, a \in (-MaxAlt)..MaxAlt, o \in Octaves}

Heads == {<<"q">>, <<"h">>, <<"w">>}

KeyNames == DOMAIN signatures

Chars == {"C", "g", "b", "#", "H", "4", "7", "x"}

RECURSIVE TextsOfLen(_)
TextsOfLen(n) ==
    IF n = 0 THEN {<<>>}
    ELSE {Append(t, c) : t \in TextsOfLen(n - 1), c \in Chars}

Texts == UNION {TextsOfLen(n) : n \in 0..MaxTextLen}

\* Note(name)
NoteCall ==
    /\ pc = "idle"
    /\ \E name \in Texts :
          LET r == NoteInit(name) IN
          /\ call' = [op |-> "Note", name |-> name]
          /\ ret' = r
          /\ pc' = IF r.raised # "" THEN "raised" ELSE "done"
    /\ UNCHANGED <<heap, stop, current, base_index, scale_index, notes, glyphs>>

\* a < b, a <= b, a > b, a >= b, a == b, a != b
CompareCall ==
    /\ pc = "idle"
    /\ \E a \in Pitches, b \in Pitches :
          /\ call' = [op |-> "compare", a |-> a, b |-> b]
          /\ ret' = [lt |-> Note_lt(a, b), le |-> Note_le(a, b), gt |-> Note_gt(a, b),
                     ge |-> Note_ge(a, b), eq |-> Note_eq(a, b), ne |-> Note_ne(a, b)]
          /\ pc' = "done"
    /\ UNCHANGED <<heap, stop, current, base_index, scale_index, notes, glyphs>>

\* glyph(note, clef, head, stem, key)
GlyphCall ==
    /\ pc = "idle"
    /\ \E note \in Pitches, clef \in ClefNames, head \in Heads,
          stem \in {<<>>, <<"s">>}, key \in KeyNames :
          LET r == glyph(heap, note, clef, head, stem, key) IN
          /\ call' = [op |-> "glyph", note |-> note, clef |-> clef, head |-> head,
                      stem |-> stem, key |-> key]
          /\ ret' = r
          /\ pc' = IF r.raised # "" THEN "raised" ELSE "done"
    /\ UNCHANGED <<heap, stop, current, base_index, scale_index, notes, glyphs>>

\* the pitches of the sequences handed to build_glyphs: below the bass range, its
\* lowest pitch, the middle line of the bass clef, a flat in every range, and
\* two pitches whose accidental the builder has pushed out of -2..2, one in
\* every range and one in the treble range only
NotePool ==
    {Pitch("G", 0, 1), Pitch("A", -1, 1), Pitch("D", 0, 3), Pitch("B", -1, 3),
     Pitch("F", 3, 4), Pitch("B", -3, 5)}

RECURSIVE SeqsOfLen(_)
SeqsOfLen(n) ==
    IF n = 0 THEN {<<>>}
    ELSE {Append(t, x) : t \in SeqsOfLen(n - 1), x \in NotePool}

NoteSeqs == UNION {SeqsOfLen(n) : n \in 0..MaxSeqLen}

FormatHeads == {<<"q">>, <<"w">>}

FormatKeys == {"c", "bb", "d"}

Separators == {<<":">>, <<";">>}

Spacers == {<<>>, <<"_">>}

Terminators == {<<":", "|">>}

\* build_glyphs(notes, clef, head, stem, sep, start, end, key, reversed)
BuildGlyphsCall ==
    /\ pc = "idle"
    /\ \E ns \in NoteSeqs, clef \in ClefNames, head \in FormatHeads, stem \in BOOLEAN,
          sep \in Separators, start \in Spacers, end \in Terminators,
          key \in FormatKeys, reversed \in BOOLEAN :
          LET r == build_glyphs(heap, ns, clef, head, stem, sep, start, end, key,
                                reversed) IN
          /\ call' = [op |-> "build_glyphs", notes |-> ns, clef |-> clef,
                      head |-> head, stem |-> stem, sep |-> sep, start |-> start,
                      end |-> end, key |-> key, reversed |-> reversed]
          /\ glyphs' = r.glyphs
          /\ ret' = r
          /\ pc' = IF r.raised # "" THEN "raised" ELSE "done"
    /\ UNCHANGED <<heap, stop, current, base_index, scale_index, notes>>

NextNote == NoteCall \/ NextCall

SpecNote == Init /\ [][NextNote]_vars

NextOrder == CompareCall \/ NextCall

SpecOrder == Init /\ [][NextOrder]_vars

NextEncode == GlyphCall \/ BuildGlyphsCall \/ NextCall

SpecEncode == Init /\ [][NextEncode]_vars

(***************************************************************************)
(* Properties of the scale builder.                                        *)
(***************************************************************************)
\* the pitch a well-formed text spells: its letter, accidental and octave
SpelledLetter(key) == key[1]

SpelledAlt(key) == IF Len(key) = 3 THEN (IF key[2] = "b" THEN -1 ELSE 1) ELSE 0

SpelledOct(key) ==
    CHOOSE d \in 0..9 : Digits[d + 1] = key[Len(key)]

Spells(n, letter, alt, oct) == n.note = letter /\ n.alt = alt /\ n.oct = oct

OctaveCall ==
    /\ call.op = "diatonic"
    /\ call.startkey \in ValidKeys
    /\ call.stopkey = OctaveAbove(call.startkey)

BuilderStep == pc = "loop" /\ pc' = "loop" /\ Len(notes') = Len(notes) + 1

\* C7 as stated: in every step the octave of the running pitch goes up by one
\* exactly when the letter advances from G to A, and is unchanged otherwise
C7_OctaveAtGToA ==
    [][BuilderStep =>
         /\ (heap[current].note = "G") <=> (heap'[current].oct = heap[current].oct + 1)
         /\ (heap[current].note # "G") => (heap'[current].oct = heap[current].oct)]_vars

\* C7 amended: in every step the octave of the running pitch goes up by one exactly
\* when the letter advances from B to C, and is unchanged on every other advance,
\* the wrap of the letter name from G to A included
C7_OctaveAtBToC ==
    [][BuilderStep =>
         /\ (heap[current].note = "B") <=> (heap'[current].oct = heap[current].oct + 1)
         /\ (heap[current].note # "B") => (heap'[current].oct = heap[current].oct)]_vars

C7_Witness ==
    /\ pc = "loop"
    /\ Len(notes) >= 4
    /\ notes[Len(notes)].note = "B"
    /\ heap[current].note = "C"
    /\ heap[current].oct = notes[Len(notes)].oct + 1
    /\ \E k \in 1..(Len(notes) - 1) :
          /\ notes[k].note = "G"
          /\ notes[k + 1].note = "A"
          /\ notes[k + 1].oct = notes[k].oct

\* the half-tone offset of each natural letter within its octave
NaturalOffset(letter) ==
    CASE letter = "C" -> 0
      [] letter = "D" -> 2
      [] letter = "E" -> 4
      [] letter = "F" -> 5
      [] letter = "G" -> 7
      [] letter = "A" -> 9
      [] letter = "B" -> 11

Sounding(n) == 12 * n.oct + NaturalOffset(n.note) + n.alt

\* the letter on which each mode is the natural scale
HomeLetter ==
    ( "Ionian" :> "C" @@ "Major" :> "C" @@ "Dorian" :> "D" @@ "Phrygian" :> "E"
   @@ "Lydian" :> "F" @@ "Mixolydian" :> "G" @@ "Aeolian" :> "A"
   @@ "Natural minor" :> "A" @@ "Locrian" :> "B" )

\* C9: the sounding distance between the k-th and the (k+1)-th emitted pitch is
\* pattern[k mod 7] half tones; a mode started on the natural letter it belongs to
\* emits naturals only; Dorian from a natural C emits E flat and B flat and no
\* other accidental
C9_HalfToneSteps ==
    (call.op = "diatonic") =>
        /\ \A k \in 1..(Len(notes) - 1) :
              Sounding(notes[k + 1]) - Sounding(notes[k])
                  = scales[call.scale][((k - 1) % 7) + 1]
        /\ ( /\ call.scale \in DOMAIN HomeLetter
             /\ Len(call.startkey) = 2
             /\ call.startkey[1] = HomeLetter[call.scale] )
           => \A k \in 1..Len(notes) : notes[k].alt = 0
        /\ (call.scale = "Dorian" /\ Len(call.startkey) = 2 /\ call.startkey[1] = "C")
           => \A k \in 1..Len(notes) :
                 notes[k].alt = (IF notes[k].note \in {"E", "B"} THEN -1 ELSE 0)

C9_Witness ==
    /\ pc = "done"
    /\ call.scale = "Dorian"
    /\ call.startkey = <<"C", "3">>
    /\ call.stopkey = <<"C", "4">>
    /\ Len(ret) = 8
    /\ Cardinality({k \in 1..8 : ret[k].alt = -1}) = 2
    /\ Spells(ret[3], "E", -1, 3)
    /\ Spells(ret[7], "B", -1, 3)

\* C10: whatever calls of the builder have been made, every entry of the clef
\* table keeps the letter, letter index, accidental and octave it was built with
C10_TableUnchanged ==
    \A r \in TableRefs : heap[r] = RangesInit[r]

\* a call with the stop left out has run to its end with the stop clamped to the
\* highest treble pitch, after stepping its running pitch
C10_Witness ==
    /\ pc = "done"
    /\ call.stopkey = <<>>
    /\ stop = ranges["treble"]["high"]
    /\ Len(ret) >= 2
    /\ Note_gt(heap[current], heap[stop])

(***************************************************************************)
(* Properties of Note().                                                   *)
(***************************************************************************)
\* <letter A-G, either case><optional b or #><one octave digit 1-6>
WellFormed(name) ==
    /\ Len(name) \in {2, 3}
    /\ name[1] \in LetterSet \cup {"a", "b", "c", "d", "e", "f", "g"}
    /\ name[Len(name)] \in OctaveDigits
    /\ Len(name) = 3 => name[2] \in {"b", "#"}

\* C2: Note(name) builds a pitch only for the well-formed texts; every other text
\* fails and builds no pitch
C2_OnlyWellFormedAccepted ==
    (call.op = "Note") => (ret.raised = "" <=> WellFormed(call.name))

(***************************************************************************)
(* Properties of the comparisons.                                          *)
(***************************************************************************)
\* the position of a letter in the cycle C, D, E, F, G, A, B
CycleIndex(letter) ==
    CASE letter = "C" -> 0
      [] letter = "D" -> 1
      [] letter = "E" -> 2
      [] letter = "F" -> 3
      [] letter = "G" -> 4
      [] letter = "A" -> 5
      [] letter = "B" -> 6

\* a before b in the order by octave, then letter of the cycle, then accidental
Before(a, b) ==
    \/ a.oct < b.oct
    \/ a.oct = b.oct /\ CycleIndex(a.note) < CycleIndex(b.note)
    \/ a.oct = b.oct /\ a.note = b.note /\ a.alt < b.alt

Same(a, b) == a.oct = b.oct /\ a.note = b.note /\ a.alt = b.alt

\* C6: the comparisons are the strict total order by (octave, letter index in the
\* cycle C..B, accidental) and agree with equality on (octave, letter, accidental):
\* exactly one of a < b, a == b, a > b holds, a <= b iff a < b or a == b, and
\* E#4 < F4 and E4 < Fb4
C6_TotalOrder ==
    (call.op = "compare") =>
        /\ ret.lt <=> Before(call.a, call.b)
        /\ ret.gt <=> Before(call.b, call.a)
        /\ ret.eq <=> Same(call.a, call.b)
        /\ Cardinality({x \in {"lt", "eq", "gt"} : ret[x]}) = 1
        /\ ret.le <=> (ret.lt \/ ret.eq)
        /\ ret.ge <=> (ret.gt \/ ret.eq)
        /\ ret.ne <=> ~ret.eq
        /\ (Same(call.a, Pitch("E", 1, 4)) /\ Same(call.b, Pitch("F", 0, 4))) => ret.lt
        /\ (Same(call.a, Pitch("E", 0, 4)) /\ Same(call.b, Pitch("F", -1, 4))) => ret.lt

C6_Witness ==
    /\ call.op = "compare"
    /\ pc = "done"
    /\ Same(call.a, Pitch("E", 1, 4))
    /\ Same(call.b, Pitch("F", -1, 4))
    /\ ret.lt /\ ret.le /\ ret.ne /\ ~ret.eq /\ ~ret.gt /\ ~ret.ge

(***************************************************************************)
(* Properties of the encoder and the formatter.                            *)
(***************************************************************************)
\* the pitch lies in [low, high] of the clef, both ends included
Within(n, clef) ==
    LET low == RangesInit[ranges[clef]["low"]]
        high == RangesInit[ranges[clef]["high"]]
    IN /\ (Before(low, n) \/ Same(low, n))
       /\ (Before(n, high) \/ Same(n, high))

ValidAcc(n) == n.alt \in -2..2

\* a glyph token is accidental + head + offset + stem: the place of its head
HeadPos(token) ==
    CHOOSE i \in 1..Len(token) :
        /\ token[i] \in {"q", "h", "w"}
        /\ \A j \in 1..(i - 1) : token[j] \notin {"q", "h", "w"}

AccPart(token) == SubSeq(token, 1, HeadPos(token) - 1)

OffsetChars == {"-", "0", "1", "2", "3", "4", "5", "6", "7", "8", "9"}

\* what follows the offset, which is the run of sign and digits after the head
StemPart(token) ==
    LET k == CHOOSE i \in HeadPos(token)..Len(token) :
                 /\ \A j \in (HeadPos(token) + 1)..i : token[j] \in OffsetChars
                 /\ (i < Len(token) => token[i + 1] \notin OffsetChars)
    IN SubSeq(token, k + 1, Len(token))

AffectedLetters(key) == {signatures[key].acc[i] : i \in 1..Len(signatures[key].acc)}

Polarity(key) == signatures[key].alt

ExpectedAcc(n, key) ==
    CASE n.alt = -1 ->
            IF Polarity(key) = -1 /\ n.note \in AffectedLetters(key) THEN <<>> ELSE <<"b">>
      [] n.alt = 1 ->
            IF Polarity(key) = 1 /\ n.note \in AffectedLetters(key) THEN <<>> ELSE <<"#">>
      [] n.alt = 0 -> IF n.note \in AffectedLetters(key) THEN <<"n">> ELSE <<>>
      [] n.alt = -2 -> <<"b", "b">>
      [] n.alt = 2 -> <<"x">>

\* C4: for every in-range pitch and every key the accidental token is empty for a
\* flat in a flat key that touches its letter and "b" for any other flat, likewise
\* for a sharp and "#", "n" for a natural whose letter the key touches and empty
\* for any other natural, "bb" for -2 and "x" for +2 whatever the key
C4_AccidentalToken ==
    (call.op = "glyph" /\ Within(call.note, call.clef) /\ ValidAcc(call.note)) =>
        /\ ret.raised = ""
        /\ ~ret.none
        /\ AccPart(ret.value) = ExpectedAcc(call.note, call.key)

C4_Witness ==
    /\ call.op = "glyph"
    /\ pc = "done"
    /\ call.note = Pitch("B", -1, 3)
    /\ call.clef = "bass"
    /\ call.key = "f"
    /\ call.head = <<"q">>
    /\ call.stem = <<>>
    /\ ret.value = <<"q", "5">>

\* the tokens the claim expects of a call: the encodings of the in-range pitches
ExpectedTokens ==
    LET inr == SelectSeq(call.notes, LAMBDA n : Within(n, call.clef))
        toks == [i \in 1..Len(inr) |->
                    glyph(RangesInit, inr[i], call.clef, call.head,
                          StemArg(call.stem), call.key).value]
    IN IF call.reversed
       THEN [i \in 1..Len(toks) |-> toks[Len(toks) - i + 1]]
       ELSE toks

RECURSIVE Joined(_, _)
Joined(sep, toks) ==
    IF Len(toks) = 0 THEN <<>>
    ELSE IF Len(toks) = 1 THEN toks[1]
    ELSE Joined(sep, SubSeq(toks, 1, Len(toks) - 1)) \o sep \o toks[Len(toks)]

\* C3: on a sequence whose accidentals are all in -2..2 the formatter does not
\* fail, and between header + spacer and the end marker stand exactly the
\* encodings of the pitches inside [low, high] of the clef, in input order (in
\* reverse order when asked), joined by the separator
C3_FormatterDropsOutOfRange ==
    ( /\ call.op = "build_glyphs"
      /\ \A i \in 1..Len(call.notes) : ValidAcc(call.notes[i]) ) =>
        /\ ret.raised = ""
        /\ \A i \in 1..Len(call.notes) :
              LET g == glyph(heap, call.notes[i], call.clef, call.head,
                             StemArg(call.stem), call.key)
              IN (~g.none /\ g.raised = "") <=> Within(call.notes[i], call.clef)
        /\ glyphs = ExpectedTokens
        /\ ret.value = build_keysig(call.clef, call.key) \o call.start
                          \o Joined(call.sep, ExpectedTokens) \o call.end

\* an out-of-range pitch stands between two in-range ones
C3_Witness ==
    /\ call.op = "build_glyphs"
    /\ pc = "done"
    /\ call.clef = "bass"
    /\ call.key = "c"
    /\ call.notes = <<Pitch("A", -1, 1), Pitch("G", 0, 1), Pitch("D", 0, 3)>>
    /\ call.reversed
    /\ call.stem
    /\ call.head = <<"q">>
    /\ call.sep = <<":">>
    /\ call.start = <<>>
    /\ ret.value = <<"B", "q", ":", "b", "q", "-", "0", ":", "|">>

\* C5 as stated: in every glyph token of the formatter the stem token is empty
\* when the caller asks for stems suppressed (stem is False) and a non-empty
\* marker when the caller asks for stemmed heads (stem is True)
C5_StemTokenEmptyWhenSuppressed ==
    (call.op = "build_glyphs" /\ pc = "done") =>
        \A i \in 1..Len(glyphs) :
            IF call.stem THEN StemPart(glyphs[i]) # <<>> ELSE StemPart(glyphs[i]) = <<>>

\* C5 amended: in every glyph token of the formatter the stem token is the marker
\* "s" when the caller asks for stems suppressed (stem is False) and empty when
\* the caller asks for stemmed heads (stem is True)
C5_StemMarkerWhenSuppressed ==
    (call.op = "build_glyphs" /\ pc = "done") =>
        \A i \in 1..Len(glyphs) :
            StemPart(glyphs[i]) = (IF call.stem THEN <<>> ELSE <<"s">>)

C5_Witness ==
    /\ call.op = "build_glyphs"
    /\ pc = "done"
    /\ ~call.stem
    /\ Len(glyphs) = 2
    /\ glyphs[1] = <<"b", "q", "5", "s">>
    /\ glyphs[2] = <<"q", "s">>

\* C8 as stated: encoding a pitch whose accidental is outside -2..2 always ends in
\* the invalid-accidental failure, wherever the pitch lies; the formatter never
\* drops such a pitch
C8_InvalidAccidentalAlwaysFails ==
    /\ (call.op = "glyph" /\ ~ValidAcc(call.note)) => ret.raised = "ValueError"
    /\ ( /\ call.op = "build_glyphs"
         /\ \E i \in 1..Len(call.notes) : ~ValidAcc(call.notes[i]) )
       => ret.raised = "ValueError"

\* C8 amended: encoding a pitch whose accidental is outside -2..2 ends in the
\* invalid-accidental failure when the pitch lies inside the range of the clef,
\* and is a range miss (no glyph) when it lies outside; the formatter fails
\* exactly when some pitch of the sequence inside the range has such an
\* accidental, and drops those outside the range
C8_InvalidAccidentalFailsInRange ==
    /\ (call.op = "glyph" /\ ~ValidAcc(call.note)) =>
          IF Within(call.note, call.clef)
          THEN ret.raised = "ValueError"
          ELSE ret.raised = "" /\ ret.none
    /\ (call.op = "build_glyphs") =>
          /\ ret.raised = "ValueError" <=>
                \E i \in 1..Len(call.notes) :
                    ~ValidAcc(call.notes[i]) /\ Within(call.notes[i], call.clef)
          /\ ret.raised \in {"", "ValueError"}
          /\ ret.raised = "" =>
                Len(glyphs) = Cardinality({i \in 1..Len(call.notes) :
                                              Within(call.notes[i], call.clef)})

\* the formatter has dropped an out-of-range pitch with accidental -3 and gone on
C8_Witness ==
    /\ call.op = "build_glyphs"
    /\ pc = "done"
    /\ call.clef = "bass"
    /\ Len(call.notes) = 2
    /\ call.notes[1] = Pitch("B", -3, 5)
    /\ call.notes[2] = Pitch("D", 0, 3)
    /\ Len(glyphs) = 1

====
